---- MODULE Spec2Model ----
(***************************************************************************)
(* Model of the CSS selector builder of src/src/05-objects-tasks.js:       *)
(* class CSSSelector (fragment methods, combineWith, stringify) and the    *)
(* cssSelectorBuilder facade.                                              *)
(*                                                                         *)
(* A JavaScript string is a sequence of one-character strings, so that     *)
(* template literals are concatenations and '' is the empty sequence.      *)
(* Selector objects live in `heap`; an object reference is its index.      *)
(***************************************************************************)
EXTENDS Integers, Sequences, FiniteSets, TLC

VARIABLES heap, calls, last, rect

vars == <<heap, calls, last, rect>>

\* ---------------------------------------------------------------- bounds
\* the most objects plus accepted calls the heap may hold
MaxSize == 5
\* the largest width or height tried for a rectangle
MaxDim == 3

\* argument values tried: '', 'a' and 'b'
Vals == {<<>>, <<"a">>, <<"b">>}
\* the values tried per method: element gets the empty string too, class gets
\* two distinct names, the other methods one name
ValsOf(kind) ==
  CASE kind = "element" -> {<<>>, <<"a">>}
    [] kind = "class" -> {<<"a">>, <<"b">>}
    [] OTHER -> {<<"a">>}
\* combinator tokens tried for combine: ' ' and '+'
Combinators == {<<" ">>, <<"+">>}

Kinds == {"element", "id", "class", "attr", "pseudoClass", "pseudoElement"}

NoError == "none"
DupError == "Element, id and pseudo-element should not occur more then one time inside the selector"
OrderError == "Selector parts should be arranged in the following order: element, id, class, attribute, pseudo-class, pseudo-element"
RangeError == <<"RangeError: Maximum call stack size exceeded">>

\* ------------------------------------------------------------ CSSSelector
\* JavaScript truthiness of a string / positivity of an array length
Truthy(s) == Len(s) > 0

NewSelector ==
  [classes |-> <<>>, attributes |-> <<>>, pseudoClasses |-> <<>>,
   combined |-> <<>>, tag |-> <<>>, idValue |-> <<>>,
   pseudoElementValue |-> <<>>]

Throw(e, this) == [err |-> e, this |-> this]
Return(this) == [err |-> NoError, this |-> this]

element(this, value) ==
  IF Truthy(this.tag) THEN Throw(DupError, this)
  ELSE IF \/ Truthy(this.idValue) \/ Truthy(this.pseudoElementValue)
          \/ Len(this.classes) > 0 \/ Len(this.pseudoClasses) > 0
          \/ Len(this.attributes) > 0
       THEN Throw(OrderError, this)
  ELSE Return([this EXCEPT !.tag = value])

\* id assigning the value before the order check
id_AssignFirst(this, value) ==
  IF Truthy(this.idValue) THEN Throw(DupError, this)
  ELSE IF \/ Truthy(this.pseudoElementValue)
          \/ Len(this.classes) > 0 \/ Len(this.pseudoClasses) > 0
          \/ Len(this.attributes) > 0
       THEN Throw(OrderError, [this EXCEPT !.idValue = <<"#">> \o value])
  ELSE Return([this EXCEPT !.idValue = <<"#">> \o value])

id(this, value) ==
  IF Truthy(this.idValue) THEN Throw(DupError, this)
  ELSE IF \/ Truthy(this.pseudoElementValue)
          \/ Len(this.classes) > 0 \/ Len(this.pseudoClasses) > 0
          \/ Len(this.attributes) > 0
       THEN Throw(OrderError, this)
  ELSE Return([this EXCEPT !.idValue = <<"#">> \o value])

\* pseudoElement storing the value behind a single colon
pseudoElement_OneColon(this, value) ==
  IF Truthy(this.pseudoElementValue) THEN Throw(DupError, this)
  ELSE Return([this EXCEPT !.pseudoElementValue = <<":">> \o value])

pseudoElement(this, value) ==
  IF Truthy(this.pseudoElementValue) THEN Throw(DupError, this)
  ELSE Return([this EXCEPT !.pseudoElementValue = <<":", ":">> \o value])

\* class without the check of the attributes
class_NoAttrCheck(this, className) ==
  IF Truthy(this.pseudoElementValue) \/ Len(this.pseudoClasses) > 0
  THEN Throw(OrderError, this)
  ELSE Return([this EXCEPT !.classes = Append(@, <<".">> \o className)])

\* class treated as a fragment that may occur once
class_Once(this, className) ==
  IF \/ Truthy(this.pseudoElementValue) \/ Len(this.classes) > 0
     \/ Len(this.attributes) > 0 \/ Len(this.pseudoClasses) > 0
  THEN Throw(OrderError, this)
  ELSE Return([this EXCEPT !.classes = Append(@, <<".">> \o className)])

class(this, className) ==
  IF \/ Truthy(this.pseudoElementValue)
     \/ Len(this.attributes) > 0 \/ Len(this.pseudoClasses) > 0
  THEN Throw(OrderError, this)
  ELSE Return([this EXCEPT !.classes = Append(@, <<".">> \o className)])

pseudoClass(this, name) ==
  IF Truthy(this.pseudoElementValue) THEN Throw(OrderError, this)
  ELSE Return([this EXCEPT !.pseudoClasses = Append(@, <<":">> \o name)])

attr(this, a) ==
  IF Truthy(this.pseudoElementValue) \/ Len(this.pseudoClasses) > 0
  THEN Throw(OrderError, this)
  ELSE Return([this EXCEPT !.attributes = Append(@, <<"[">> \o a \o <<"]">>)])

\* combineWith rejected once the pseudo-element is set
combineWith_Ordered(this, combinator, selector) ==
  IF Truthy(this.pseudoElementValue) THEN Throw(OrderError, this)
  ELSE Return([this EXCEPT !.combined = Append(@, <<combinator, selector>>)])

\* combineWith putting the pair at the front of the list
combineWith_Unshift(this, combinator, selector) ==
  Return([this EXCEPT !.combined = <<<<combinator, selector>>>> \o @])

combineWith(this, combinator, selector) ==
  Return([this EXCEPT !.combined = Append(@, <<combinator, selector>>)])

\* the call stack is deeper than any chain of distinct selectors
StackLimit(h) == Len(h)

RECURSIVE forEachConcat(_, _)
forEachConcat(result, parts) ==
  IF parts = <<>> THEN result
  ELSE forEachConcat(result \o Head(parts), Tail(parts))

RECURSIVE stringify(_, _, _), forEachCombined(_, _, _, _)
\* the template without the space after the combinator
forEachCombined_NoSpaceAfter(h, result, combined, depth) ==
  IF combined = <<>> THEN result
  ELSE LET selector == Head(combined)
           inner == stringify(h, selector[2], depth + 1)
       IN IF inner = RangeError THEN RangeError
          ELSE forEachCombined(h,
                 result \o <<" ">> \o selector[1] \o inner,
                 Tail(combined), depth)

\* the combined selector rendered by its tag alone, without recursion
forEachCombined_TagOnly(h, result, combined, depth) ==
  IF combined = <<>> THEN result
  ELSE LET selector == Head(combined)
       IN forEachCombined(h,
            result \o <<" ">> \o selector[1] \o <<" ">> \o h[selector[2]].tag,
            Tail(combined), depth)

forEachCombined(h, result, combined, depth) ==
  IF combined = <<>> THEN result
  ELSE LET selector == Head(combined)
           inner == stringify(h, selector[2], depth + 1)
       IN IF inner = RangeError THEN RangeError
          ELSE forEachCombined(h,
                 result \o <<" ">> \o selector[1] \o <<" ">> \o inner,
                 Tail(combined), depth)

\* stringify appending the pseudo-element before the combined selectors
stringify_PseudoFirst(h, i, depth) ==
  IF depth > StackLimit(h) THEN RangeError
  ELSE LET this == h[i]
           r0 == this.tag \o this.idValue
           r1 == forEachConcat(r0, this.classes)
           r2 == forEachConcat(r1, this.attributes)
           r3 == forEachConcat(r2, this.pseudoClasses)
           r4 == forEachCombined(h, r3 \o this.pseudoElementValue,
                                 this.combined, depth)
       IN r4

stringify(h, i, depth) ==
  IF depth > StackLimit(h) THEN RangeError
  ELSE LET this == h[i]
           r0 == this.tag \o this.idValue
           r1 == forEachConcat(r0, this.classes)
           r2 == forEachConcat(r1, this.attributes)
           r3 == forEachConcat(r2, this.pseudoClasses)
           r4 == forEachCombined(h, r3, this.combined, depth)
       IN IF r4 = RangeError THEN RangeError
          ELSE r4 \o this.pseudoElementValue

\* method dispatch by name
Invoke(kind, this, value) ==
  CASE kind = "element" -> element(this, value)
    [] kind = "id" -> id(this, value)
    [] kind = "class" -> class(this, value)
    [] kind = "attr" -> attr(this, value)
    [] kind = "pseudoClass" -> pseudoClass(this, value)
    [] kind = "pseudoElement" -> pseudoElement(this, value)

\* ------------------------------------------------------------------ state
\* calls[i] is the history of the calls that returned normally on object i
Call(kind, value, other) == [kind |-> kind, value |-> value, other |-> other]

\* the number of objects plus the number of calls they accepted
Size == LET RECURSIVE Sum(_)
            Sum(n) == IF n = 0 THEN 0 ELSE 1 + Len(calls[n]) + Sum(n - 1)
        IN Sum(Len(calls))

\* the last call: its name, whether it went through the facade, the receiver,
\* the error thrown (NoError if none), the object returned (0 if none), the
\* string returned by stringify, and the heap as it was before the call
Last(op, facade, inst, err, ret, out, pre) ==
  [op |-> op, facade |-> facade, inst |-> inst, err |-> err, ret |-> ret,
   out |-> out, pre |-> pre]

\* ----------------------------------------------------------------- Rectangle
Dims == 0..MaxDim

\* no rectangle made yet
NoRectangle ==
  [op |-> "none", width |-> 0, height |-> 0,
   getArea |-> [width |-> 0, height |-> 0], area |-> 0]

\* Rectangle(width, height): the object returned, whose getArea is an arrow
\* function closed over the two parameters
Rectangle(width, height) ==
  [op |-> "Rectangle", width |-> width, height |-> height,
   getArea |-> [width |-> width, height |-> height], area |-> 0]

\* r.getArea(): the product of the captured parameters
getArea(r) == r.getArea.width * r.getArea.height

Init ==
  /\ heap = <<>>
  /\ calls = <<>>
  /\ last = Last("init", FALSE, 0, NoError, 0, <<>>, <<>>)
  /\ rect = NoRectangle

\* selector.<kind>(value) on an existing object
MethodCall(i, kind, value) ==
  LET r == Invoke(kind, heap[i], value)
  IN /\ i \in 1..Len(heap)
     /\ r.err # NoError \/ Size < MaxSize
     /\ heap' = [heap EXCEPT ![i] = r.this]
     /\ calls' = IF r.err = NoError
                 THEN [calls EXCEPT ![i] = Append(@, Call(kind, value, 0))]
                 ELSE calls
     /\ last' = Last(kind, FALSE, i, r.err,
                     IF r.err = NoError THEN i ELSE 0, <<>>, heap)

CallElement(i, value) == MethodCall(i, "element", value)
CallId(i, value) == MethodCall(i, "id", value)
CallClass(i, value) == MethodCall(i, "class", value)
CallAttr(i, value) == MethodCall(i, "attr", value)
CallPseudoClass(i, value) == MethodCall(i, "pseudoClass", value)
CallPseudoElement(i, value) == MethodCall(i, "pseudoElement", value)

\* a facade that keeps one selector object and calls every method on it
BuilderCall_Shared(kind, value) ==
  IF heap = <<>>
  THEN /\ Size + 1 < MaxSize
       /\ heap' = <<Invoke(kind, NewSelector, value).this>>
       /\ calls' = <<<<Call(kind, value, 0)>>>>
       /\ last' = Last(kind, TRUE, 1, NoError, 1, <<>>, heap)
  ELSE LET r == Invoke(kind, heap[1], value)
       IN /\ r.err # NoError \/ Size < MaxSize
          /\ heap' = [heap EXCEPT ![1] = r.this]
          /\ calls' = IF r.err = NoError
                      THEN [calls EXCEPT ![1] = Append(@, Call(kind, value, 0))]
                      ELSE calls
          /\ last' = Last(kind, TRUE, 1, r.err,
                          IF r.err = NoError THEN 1 ELSE 0, <<>>, heap)

\* cssSelectorBuilder.<kind>(value): new CSSSelector(), then the method
BuilderCall(kind, value) ==
  LET r == Invoke(kind, NewSelector, value)
      n == Len(heap) + 1
  IN /\ Size + 1 < MaxSize
     /\ IF r.err = NoError
        THEN /\ heap' = Append(heap, r.this)
             /\ calls' = Append(calls, <<Call(kind, value, 0)>>)
             /\ last' = Last(kind, TRUE, n, NoError, n, <<>>, heap)
        ELSE /\ UNCHANGED <<heap, calls>>
             /\ last' = Last(kind, TRUE, 0, r.err, 0, <<>>, heap)

BuilderElement(value) == BuilderCall("element", value)
BuilderId(value) == BuilderCall("id", value)
BuilderClass(value) == BuilderCall("class", value)
BuilderAttr(value) == BuilderCall("attr", value)
BuilderPseudoClass(value) == BuilderCall("pseudoClass", value)
BuilderPseudoElement(value) == BuilderCall("pseudoElement", value)

\* cssSelectorBuilder.combine(selector1, combinator, selector2)
combine(selector1, combinator, selector2) ==
  LET r == combineWith(heap[selector1], combinator, selector2)
  IN /\ selector1 \in 1..Len(heap)
     /\ selector2 \in 1..Len(heap)
     /\ Size < MaxSize
     /\ heap' = [heap EXCEPT ![selector1] = r.this]
     /\ calls' = [calls EXCEPT
                    ![selector1] = Append(@, Call("combine", combinator, selector2))]
     /\ last' = Last("combine", TRUE, selector1, r.err, selector1, <<>>, heap)

\* stringify() that consumes the combined list while it renders it
CallStringify_Consuming(i) ==
  LET s == stringify(heap, i, 1)
  IN /\ i \in 1..Len(heap)
     /\ heap' = [heap EXCEPT ![i].combined = <<>>]
     /\ UNCHANGED calls
     /\ last' = IF s = RangeError
                THEN Last("stringify", FALSE, i, "RangeError", 0, <<>>, heap)
                ELSE Last("stringify", FALSE, i, NoError, 0, s, heap)

\* stringify() returning the text as it was before the last call
CallStringify_Stale(i) ==
  LET old == IF i \in DOMAIN last.pre THEN last.pre ELSE heap
      s == stringify(old, i, 1)
  IN /\ i \in 1..Len(heap)
     /\ UNCHANGED <<heap, calls>>
     /\ last' = IF s = RangeError
                THEN Last("stringify", FALSE, i, "RangeError", 0, <<>>, heap)
                ELSE Last("stringify", FALSE, i, NoError, 0, s, heap)

\* selector.stringify()
CallStringify(i) ==
  LET s == stringify(heap, i, 1)
  IN /\ i \in 1..Len(heap)
     /\ UNCHANGED <<heap, calls>>
     /\ last' = IF s = RangeError
                THEN Last("stringify", FALSE, i, "RangeError", 0, <<>>, heap)
                ELSE Last("stringify", FALSE, i, NoError, 0, s, heap)

Next ==
  \/ \E v \in ValsOf("element") :
       BuilderElement(v) /\ UNCHANGED rect
  \/ \E v \in ValsOf("id") :
       BuilderId(v) /\ UNCHANGED rect
  \/ \E v \in ValsOf("class") :
       BuilderClass(v) /\ UNCHANGED rect
  \/ \E v \in ValsOf("attr") :
       BuilderAttr(v) /\ UNCHANGED rect
  \/ \E v \in ValsOf("pseudoClass") :
       BuilderPseudoClass(v) /\ UNCHANGED rect
  \/ \E v \in ValsOf("pseudoElement") :
       BuilderPseudoElement(v) /\ UNCHANGED rect
  \/ \E i \in 1..Len(heap), v \in ValsOf("element") :
       CallElement(i, v) /\ UNCHANGED rect
  \/ \E i \in 1..Len(heap), v \in ValsOf("id") :
       CallId(i, v) /\ UNCHANGED rect
  \/ \E i \in 1..Len(heap), v \in ValsOf("class") :
       CallClass(i, v) /\ UNCHANGED rect
  \/ \E i \in 1..Len(heap), v \in ValsOf("attr") :
       CallAttr(i, v) /\ UNCHANGED rect
  \/ \E i \in 1..Len(heap), v \in ValsOf("pseudoClass") :
       CallPseudoClass(i, v) /\ UNCHANGED rect
  \/ \E i \in 1..Len(heap), v \in ValsOf("pseudoElement") :
       CallPseudoElement(i, v) /\ UNCHANGED rect
  \/ \E i \in 1..Len(heap), j \in 1..Len(heap), c \in Combinators :
       combine(i, c, j) /\ UNCHANGED rect
  \/ \E i \in 1..Len(heap) :
       CallStringify(i) /\ UNCHANGED rect

Spec == Init /\ [][Next]_vars

\* ------------------------------------------- calls that follow a combination
\* the facade seeds tried for the two selectors of a combination
Seeds ==
  {Call("element", <<"a">>, 0), Call("class", <<"b">>, 0),
   Call("pseudoClass", <<"a">>, 0), Call("pseudoElement", <<"a">>, 0)}

\* builder.combine(builder.<left>(..), combinator, builder.<right>(..)) has
\* just returned
InitAfterCombine ==
  \E left \in Seeds, right \in Seeds, combinator \in Combinators :
    LET s1 == Invoke(left.kind, NewSelector, left.value).this
        s2 == Invoke(right.kind, NewSelector, right.value).this
    IN /\ heap = <<combineWith(s1, combinator, 2).this, s2>>
       /\ calls = <<<<left, Call("combine", combinator, 2)>>, <<right>>>>
       /\ last = Last("combine", TRUE, 1, NoError, 1, <<>>, <<s1, s2>>)
       /\ rect = NoRectangle

\* the heap may grow by one more accepted call after the combination
MaxLater == MaxSize + 1

\* selector.<kind>(value) after the combination
LaterCall(i, kind, value) ==
  LET r == Invoke(kind, heap[i], value)
  IN /\ i \in 1..Len(heap)
     /\ r.err # NoError \/ Size < MaxLater
     /\ heap' = [heap EXCEPT ![i] = r.this]
     /\ calls' = IF r.err = NoError
                 THEN [calls EXCEPT ![i] = Append(@, Call(kind, value, 0))]
                 ELSE calls
     /\ last' = Last(kind, FALSE, i, r.err,
                     IF r.err = NoError THEN i ELSE 0, <<>>, heap)

\* cssSelectorBuilder.combine(selector1, combinator, selector2) after the
\* combination
LaterCombine(selector1, combinator, selector2) ==
  LET r == combineWith(heap[selector1], combinator, selector2)
  IN /\ selector1 \in 1..Len(heap)
     /\ selector2 \in 1..Len(heap)
     /\ Size < MaxLater
     /\ heap' = [heap EXCEPT ![selector1] = r.this]
     /\ calls' = [calls EXCEPT
                    ![selector1] = Append(@, Call("combine", combinator, selector2))]
     /\ last' = Last("combine", TRUE, selector1, r.err, selector1, <<>>, heap)

NextAfterCombine ==
  \/ \E i \in 1..Len(heap), kind \in Kinds :
       \E v \in ValsOf(kind) : LaterCall(i, kind, v) /\ UNCHANGED rect
  \/ \E i \in 1..Len(heap), j \in 1..Len(heap), c \in Combinators :
       LaterCombine(i, c, j) /\ UNCHANGED rect
  \/ \E i \in 1..Len(heap) :
       CallStringify(i) /\ UNCHANGED rect

SpecAfterCombine == InitAfterCombine /\ [][NextAfterCombine]_vars

\* ------------------------------------------------------ calls on a rectangle
\* r = new Rectangle(width, height)
NewRectangle(width, height) ==
  rect' = Rectangle(width, height)

\* r.width = value
SetWidth(value) ==
  /\ rect.op # "none"
  /\ rect' = [rect EXCEPT !.op = "width", !.width = value]

\* r.height = value
SetHeight(value) ==
  /\ rect.op # "none"
  /\ rect' = [rect EXCEPT !.op = "height", !.height = value]

\* r.getArea()
CallGetArea ==
  /\ rect.op # "none"
  /\ rect' = [rect EXCEPT !.op = "getArea", !.area = getArea(rect)]

NextRectangle ==
  \/ \E w \in Dims, h \in Dims :
       NewRectangle(w, h) /\ UNCHANGED <<heap, calls, last>>
  \/ \E v \in Dims :
       SetWidth(v) /\ UNCHANGED <<heap, calls, last>>
  \/ \E v \in Dims :
       SetHeight(v) /\ UNCHANGED <<heap, calls, last>>
  \/ CallGetArea /\ UNCHANGED <<heap, calls, last>>

SpecRectangle == Init /\ [][NextRectangle]_vars

\* ----------------------------------------------------- vocabulary of the claims
\* the canonical order of the fragment kinds
Rank(kind) ==
  CASE kind = "element" -> 1
    [] kind = "id" -> 2
    [] kind = "class" -> 3
    [] kind = "attr" -> 4
    [] kind = "pseudoClass" -> 5
    [] kind = "pseudoElement" -> 6

Singletons == {"element", "id", "pseudoElement"}

\* the last call was selector.<kind>(value) on an existing object
IsMethodCall == last.op \in Kinds /\ ~last.facade

Fragments(history) == SelectSeq(history, LAMBDA c : c.kind \in Kinds)

\* the calls that had returned normally on object i before the last call
PreCalls(i) ==
  IF last.err = NoError /\ last.inst = i /\ last.op \in Kinds \cup {"combine"}
  THEN SubSeq(calls[i], 1, Len(calls[i]) - 1)
  ELSE calls[i]

Occurs(kind, history) == \E n \in 1..Len(history) : history[n].kind = kind

Count(kind, history) == Len(SelectSeq(history, LAMBDA c : c.kind = kind))

\* some kind already present is strictly later than `kind`
LaterPresent(kind, history) ==
  \E n \in 1..Len(history) :
    history[n].kind \in Kinds /\ Rank(history[n].kind) > Rank(kind)

NonDecreasing(history) ==
  \A m, n \in 1..Len(history) :
    m < n => Rank(history[m].kind) <= Rank(history[n].kind)

\* the object `s` with the one fragment of `kind` and `value` set or appended
WithFragment(s, kind, value) ==
  CASE kind = "element" -> [s EXCEPT !.tag = value]
    [] kind = "id" -> [s EXCEPT !.idValue = <<"#">> \o value]
    [] kind = "class" -> [s EXCEPT !.classes = @ \o << <<".">> \o value >>]
    [] kind = "attr" ->
         [s EXCEPT !.attributes = @ \o << <<"[">> \o value \o <<"]">> >>]
    [] kind = "pseudoClass" ->
         [s EXCEPT !.pseudoClasses = @ \o << <<":">> \o value >>]
    [] kind = "pseudoElement" ->
         [s EXCEPT !.pseudoElementValue = <<":", ":">> \o value]

\* ---------------------------------------------------------------------- C1
\* C1: a fragment call whose kind is strictly earlier in the canonical order
\* than a kind already present on the object throws, and the fragment calls
\* that returned normally on any object are in non-decreasing canonical order.
C1_OutOfOrderRejected ==
  /\ (IsMethodCall /\ LaterPresent(last.op, PreCalls(last.inst)))
       => last.err \in {DupError, OrderError}
  /\ \A i \in 1..Len(calls) : NonDecreasing(Fragments(calls[i]))

\* class('a') then element('a') on the same object has thrown the order error
C1_Witness ==
  /\ IsMethodCall /\ last.op = "element" /\ last.err = OrderError
  /\ calls[last.inst] = <<Call("class", <<"a">>, 0)>>

\* ---------------------------------------------------------------------- C2
\* C2: a second call of element, id or pseudoElement on the same object throws
\* the duplicate-singleton error whatever the arguments, so each of the three
\* returns normally at most once per object.
C2_SingletonsOnce ==
  /\ (IsMethodCall /\ last.op \in Singletons
        /\ Occurs(last.op, PreCalls(last.inst)))
       => last.err = DupError
  /\ \A i \in 1..Len(calls) : \A k \in Singletons : Count(k, calls[i]) <= 1

\* ---------------------------------------------------------------------- C3
\* C3: a fragment call whose kind is at or after every kind present, and which
\* does not repeat element, id or pseudoElement, returns the object it was
\* called on, with exactly that fragment set or appended.
C3_ValidCallAccepted ==
  (/\ IsMethodCall
   /\ ~LaterPresent(last.op, PreCalls(last.inst))
   /\ ~(last.op \in Singletons /\ Occurs(last.op, PreCalls(last.inst))))
  => /\ last.err = NoError
     /\ last.ret = last.inst
     /\ \E v \in Vals :
          /\ heap[last.inst] = WithFragment(last.pre[last.inst], last.op, v)
          /\ calls[last.inst][Len(calls[last.inst])] = Call(last.op, v, 0)

\* a class call on an object that already had a class has returned normally
C3_Witness ==
  /\ IsMethodCall /\ last.op = "class" /\ last.err = NoError
  /\ Len(last.pre[last.inst].classes) > 0
  /\ Len(heap[last.inst].classes) = Len(last.pre[last.inst].classes) + 1

\* ---------------------------------------------------------------------- C4
\* every object received element, id and pseudoElement at most once
ValidSequence ==
  \A i \in 1..Len(calls) : \A k \in Singletons : Count(k, calls[i]) <= 1

\* the text the calls of a history stand for: per kind, in call order, each
\* value with its sigil
RECURSIVE Sigils(_, _, _)
Sigils(history, open, close) ==
  IF history = <<>> THEN <<>>
  ELSE open \o Head(history).value \o close \o Sigils(Tail(history), open, close)

OfKind(kind, history) == SelectSeq(history, LAMBDA c : c.kind = kind)

RECURSIVE Rendering(_, _), Segments(_, _)
Segments(history, fuel) ==
  IF history = <<>> THEN <<>>
  ELSE <<" ">> \o Head(history).value \o <<" ">>
         \o Rendering(Head(history).other, fuel) \o Segments(Tail(history), fuel)

Rendering(i, fuel) ==
  IF fuel = 0 THEN <<>>
  ELSE Sigils(OfKind("element", calls[i]), <<>>, <<>>)
         \o Sigils(OfKind("id", calls[i]), <<"#">>, <<>>)
         \o Sigils(OfKind("class", calls[i]), <<".">>, <<>>)
         \o Sigils(OfKind("attr", calls[i]), <<"[">>, <<"]">>)
         \o Sigils(OfKind("pseudoClass", calls[i]), <<":">>, <<>>)
         \o Segments(OfKind("combine", calls[i]), fuel - 1)
         \o Sigils(OfKind("pseudoElement", calls[i]), <<":", ":">>, <<>>)

\* C4: after a valid call sequence, a stringify() that returns yields exactly
\* tag, '#'+id, each '.'+class, each '['+attr+']', each ':'+pseudoClass, then
\* per combined pair ' '+combinator+' '+stringify(other), then
\* '::'+pseudoElement, each list in call order and nothing else.
C4_StringifyFormat ==
  (ValidSequence /\ last.op = "stringify" /\ last.err = NoError)
    => last.out = Rendering(last.inst, Len(heap) + 1)

\* stringify() has returned the text of an object with a combined selector
\* and a pseudo-element of its own
C4_Witness ==
  /\ ValidSequence
  /\ last.op = "stringify" /\ last.err = NoError
  /\ Len(heap[last.inst].combined) > 0
  /\ Truthy(heap[last.inst].pseudoElementValue)
  /\ last.out = <<" ", "+", " ", ".", "b", ":", ":", "a">>

\* ---------------------------------------------------------------------- C5
\* C5: stringify() changes no field of any object, so a second stringify()
\* right after it has the same outcome and every fragment call is accepted or
\* rejected as it was before.
C5_StringifyPure ==
  last.op = "stringify" =>
    /\ heap = last.pre
    /\ stringify(heap, last.inst, 1) =
         (IF last.err = NoError THEN last.out ELSE RangeError)
    /\ \A k \in Kinds : \A v \in Vals :
         Invoke(k, heap[last.inst], v).err
           = Invoke(k, last.pre[last.inst], v).err

\* stringify() has returned a non-empty text for an object that combines
\* another one
C5_Witness ==
  /\ last.op = "stringify" /\ last.err = NoError
  /\ Len(last.out) > 0
  /\ \E n \in 1..Len(heap[last.inst].combined) :
       heap[last.inst].combined[n][2] # last.inst

\* ---------------------------------------------------------------------- C6
\* the arguments of the last combine call
CombineArgs == calls[last.inst][Len(calls[last.inst])]

\* combine has appended exactly the pair of its arguments to left.combined,
\* returned left and kept the other fields of left
CombineAppends ==
  LET left == last.inst
      right == CombineArgs.other
  IN /\ last.err = NoError
     /\ last.ret = left
     /\ heap[left] =
          [last.pre[left] EXCEPT
             !.combined = @ \o << <<CombineArgs.value, right>> >>]
     /\ SubSeq(heap[left].combined, 1, Len(last.pre[left].combined))
          = last.pre[left].combined

\* C6 as stated: combine(left, c, right) appends exactly (c, right) to
\* left.combined, returns left, and leaves every other field of left and every
\* field of right unchanged.
C6_CombineFrame_AsStated ==
  last.op = "combine" =>
    /\ CombineAppends
    /\ heap[CombineArgs.other] = last.pre[CombineArgs.other]

\* C6 amended: combine(left, c, right) appends exactly (c, right) to
\* left.combined, returns left, and leaves every other field of left and every
\* field of every other object (right too, unless right is left itself)
\* unchanged.
C6_CombineFrame ==
  last.op = "combine" =>
    /\ CombineAppends
    /\ Len(heap) = Len(last.pre)
    /\ \A j \in 1..Len(heap) : j # last.inst => heap[j] = last.pre[j]

\* combine has been called with two different objects
C6_Witness ==
  /\ last.op = "combine"
  /\ CombineArgs.other # last.inst
  /\ Len(heap[last.inst].combined) = 1

\* ---------------------------------------------------------------------- C7
\* C7: a facade call never throws and returns a new object, distinct from all
\* earlier ones, that holds only the seeded fragment; a facade call or a
\* fragment call on one object changes no field of any other object.
C7_FacadeFresh ==
  /\ (last.facade /\ last.op \in Kinds) =>
       /\ last.err = NoError
       /\ last.ret = Len(last.pre) + 1
       /\ Len(heap) = Len(last.pre) + 1
       /\ \E v \in Vals : heap[last.ret] = WithFragment(NewSelector, last.op, v)
       /\ \A j \in 1..Len(last.pre) : heap[j] = last.pre[j]
  /\ IsMethodCall =>
       /\ Len(heap) = Len(last.pre)
       /\ \A j \in 1..Len(heap) : j # last.inst => heap[j] = last.pre[j]

\* a fragment call has changed one of two objects created by the facade
C7_Witness ==
  /\ IsMethodCall /\ last.err = NoError
  /\ Len(heap) = 2
  /\ heap[last.inst] # last.pre[last.inst]

\* ---------------------------------------------------------------------- C8
\* C8: a fragment call that throws leaves every field of the object as it
\* was, so stringify() has the same outcome as before the call and the calls
\* accepted afterwards are those accepted before.
C8_FailedCallNoMutation ==
  (IsMethodCall /\ last.err # NoError) =>
    /\ heap = last.pre
    /\ last.ret = 0
    /\ stringify(heap, last.inst, 1) = stringify(last.pre, last.inst, 1)
    /\ \A k \in Kinds : \A v \in Vals :
         Invoke(k, heap[last.inst], v).err
           = Invoke(k, last.pre[last.inst], v).err

\* an id call has thrown the order error on an object holding a class
C8_Witness ==
  /\ IsMethodCall /\ last.op = "id" /\ last.err = OrderError
  /\ Len(heap[last.inst].classes) > 0

\* ---------------------------------------------------------------------- C9
RECURSIVE TotalLen(_)
TotalLen(parts) == IF parts = <<>> THEN 0 ELSE Len(Head(parts)) + TotalLen(Tail(parts))

\* the length of the object's own fragments that precede its combined pairs
OwnLen(i) ==
  Len(heap[i].tag) + Len(heap[i].idValue) + TotalLen(heap[i].classes)
    + TotalLen(heap[i].attributes) + TotalLen(heap[i].pseudoClasses)

\* the rendering of the right selector of the k-th combined pair of object i
RightText(i, k) == stringify(heap, heap[i].combined[k][2], 1)

\* where the k-th combinator segment of object i starts in its rendering,
\* each segment being a space, the token, a space and the right rendering
RECURSIVE SegmentStart(_, _)
SegmentStart(i, k) ==
  IF k = 1 THEN OwnLen(i)
  ELSE SegmentStart(i, k - 1) + 2 + Len(heap[i].combined[k - 1][1])
         + Len(RightText(i, k - 1))

\* the characters from..to of a text, "" standing for a position past its end
Slice(text, from, to) ==
  IF to < from THEN <<>>
  ELSE [x \in 1..(to - from + 1) |->
          IF from + x - 1 \in DOMAIN text THEN text[from + x - 1] ELSE ""]

\* one space on each side of the token of the k-th segment, then the right
\* rendering
SpaceTokenSpace(i, k) ==
  LET text == last.out
      p == SegmentStart(i, k)
      token == heap[i].combined[k][1]
  IN /\ Slice(text, p + 1, p + 2 + Len(token)) = <<" ">> \o token \o <<" ">>
     /\ Slice(text, p + 3 + Len(token), p + 2 + Len(token) + Len(RightText(i, k)))
          = RightText(i, k)

\* between the left fragments and the right rendering of the k-th segment
\* there are exactly `n` spaces
SpacesBeforeRight(i, k, n) ==
  LET text == last.out
      p == SegmentStart(i, k)
  IN /\ Slice(text, p + 1, p + n) = [x \in 1..n |-> " "]
     /\ Slice(text, p + n + 1, p + n + Len(RightText(i, k))) = RightText(i, k)

\* C9 as stated: every combinator segment of a rendering has one space on
\* each side of the token, and for the single-space token the separator
\* between the left fragments and the right rendering is exactly two spaces.
C9_CombinatorSpacing_AsStated ==
  (last.op = "stringify" /\ last.err = NoError) =>
    \A k \in 1..Len(heap[last.inst].combined) :
      /\ SpaceTokenSpace(last.inst, k)
      /\ heap[last.inst].combined[k][1] = <<" ">>
           => SpacesBeforeRight(last.inst, k, 2)

\* C9 amended: every combinator segment of a rendering has one space on each
\* side of the token, and for the single-space token the separator between
\* the left fragments and the right rendering is exactly three spaces.
C9_CombinatorSpacing ==
  (last.op = "stringify" /\ last.err = NoError) =>
    \A k \in 1..Len(heap[last.inst].combined) :
      /\ SpaceTokenSpace(last.inst, k)
      /\ heap[last.inst].combined[k][1] = <<" ">>
           => SpacesBeforeRight(last.inst, k, 3)

\* stringify() has returned 'a   .b': element a, the single-space token,
\* class b
C9_Witness ==
  /\ last.op = "stringify" /\ last.err = NoError
  /\ Len(heap[last.inst].combined) = 1
  /\ heap[last.inst].combined[1][1] = <<" ">>
  /\ last.out = <<"a", " ", " ", " ", ".", "b">>

\* --------------------------------------------------------------------- C10
\* C10: an element or id call that both repeats that fragment and comes after
\* a later kind throws the duplicate-singleton error, not the order error.
C10_DuplicateBeforeOrder ==
  (/\ IsMethodCall
   /\ last.op \in {"element", "id"}
   /\ Occurs(last.op, PreCalls(last.inst))
   /\ LaterPresent(last.op, PreCalls(last.inst)))
  => last.err = DupError

\* --------------------------------------------------------------------- C11
\* the object built by the calls of a history on a new selector
RECURSIVE Replay(_, _)
Replay(this, history) ==
  IF history = <<>> THEN this
  ELSE Replay(Invoke(Head(history).kind, this, Head(history).value).this,
              Tail(history))

\* the fragment calls `this` accepts and rejects are those `that` does
SameVerdicts(this, that) ==
  \A k \in Kinds : \A v \in Vals :
    Invoke(k, this, v).err = Invoke(k, that, v).err

\* C11: combine returns normally in every state of the left object, and every
\* object accepts and rejects fragment calls exactly as the object built by
\* its call sequence with the combine calls removed.
C11_CombineKeepsOrderState ==
  /\ last.op = "combine" =>
       /\ last.err = NoError
       /\ last.ret = last.inst
       /\ SameVerdicts(heap[last.inst], last.pre[last.inst])
  /\ \A i \in 1..Len(heap) :
       SameVerdicts(heap[i], Replay(NewSelector, Fragments(calls[i])))

\* combine has returned normally on an object that holds a pseudo-element
C11_Witness ==
  /\ last.op = "combine" /\ last.err = NoError
  /\ Truthy(last.pre[last.inst].pseudoElementValue)
  /\ Len(heap[last.inst].combined) = Len(last.pre[last.inst].combined) + 1

\* --------------------------------------------------------------------- C13
\* the objects some combined list of object j names
CombinedOf(j) == {heap[j].combined[k][2] : k \in 1..Len(heap[j].combined)}

RECURSIVE Reached(_, _)
Reached(i, n) ==
  IF n = 0 THEN {i}
  ELSE LET near == Reached(i, n - 1)
       IN near \cup UNION {CombinedOf(j) : j \in near}

\* object i reaches, through combined lists, an object that reaches itself
ReachesCycle(i) ==
  \E j \in Reached(i, Len(heap)) :
    \E m \in CombinedOf(j) : j \in Reached(m, Len(heap))

\* C13 as stated: stringify() returns a string for every selector, also when
\* combine was given the same object as left and right or closed a cycle.
C13_StringifyReturns_AsStated ==
  last.op = "stringify" => last.err = NoError

\* C13 amended: stringify() returns a string exactly for the selectors that
\* reach no cycle of combined lists; for one that reaches a cycle (combine
\* given the same object twice, or an object combined into one reachable from
\* it) the recursion exhausts the call stack and a RangeError is thrown.
C13_StringifyReturns ==
  last.op = "stringify" =>
    /\ ~ReachesCycle(last.inst) => last.err = NoError
    /\ ReachesCycle(last.inst) => last.err = "RangeError" /\ last.out = <<>>

\* stringify() has thrown on an object that was combined with itself
C13_Witness ==
  /\ last.op = "stringify" /\ last.err = "RangeError"
  /\ last.inst \in CombinedOf(last.inst)
  /\ ReachesCycle(last.inst)

\* --------------------------------------------------------------------- C12
\* the text of the element, id, class, attribute and pseudo-class calls that
\* object i accepted, whenever they were made
OwnText(i) ==
  Sigils(OfKind("element", calls[i]), <<>>, <<>>)
    \o Sigils(OfKind("id", calls[i]), <<"#">>, <<>>)
    \o Sigils(OfKind("class", calls[i]), <<".">>, <<>>)
    \o Sigils(OfKind("attr", calls[i]), <<"[">>, <<"]">>)
    \o Sigils(OfKind("pseudoClass", calls[i]), <<":">>, <<>>)

PseudoElementText(i) ==
  Sigils(OfKind("pseudoElement", calls[i]), <<":", ":">>, <<>>)

\* C12: in the text stringify() returns for a selector with combined pairs,
\* all its own element, id, class, attribute and pseudo-class fragments, also
\* those added after the combine call, precede the first combinator segment,
\* and its own pseudo-element is the end of the text, after the renderings of
\* all combined selectors.
C12_OwnFragmentsThenCombinedThenPseudo ==
  (/\ last.op = "stringify" /\ last.err = NoError
   /\ Len(heap[last.inst].combined) > 0)
  => LET i == last.inst
         text == last.out
         own == OwnText(i)
         pairs == OfKind("combine", calls[i])
         middle == Segments(pairs, Len(heap))
         pseudo == PseudoElementText(i)
     IN /\ Slice(text, 1, Len(own)) = own
        /\ Slice(text, Len(own) + 1, Len(own) + 2 + Len(pairs[1].value))
             = <<" ">> \o pairs[1].value \o <<" ">>
        /\ Slice(text, Len(own) + 1, Len(own) + Len(middle)) = middle
        /\ Slice(text, Len(own) + Len(middle) + 1, Len(text)) = pseudo

\* stringify() has returned the text of a selector that received a class
\* after it was combined with another selector
C12_Witness ==
  /\ last.op = "stringify" /\ last.err = NoError
  /\ Len(heap[last.inst].combined) > 0
  /\ \E m, n \in 1..Len(calls[last.inst]) :
       /\ m < n
       /\ calls[last.inst][m].kind = "combine"
       /\ calls[last.inst][n].kind = "class"
  /\ Len(OwnText(last.inst)) > 1

\* --------------------------------------------------------------------- C14
\* where the rendering of the right selector of the k-th combine call of
\* object i starts in the text of object i
RECURSIVE RightStart(_, _)
RightStart(i, k) ==
  LET pairs == OfKind("combine", calls[i])
  IN IF k = 1 THEN Len(OwnText(i)) + 2 + Len(pairs[1].value)
     ELSE RightStart(i, k - 1)
            + Len(Rendering(pairs[k - 1].other, Len(heap)))
            + 2 + Len(pairs[k].value)

\* C14: combine keeps the right selector itself, and the text stringify()
\* returns for left holds, for every combine call, the rendering of all the
\* calls its right selector has accepted by then, those made after the
\* combine call included.
C14_RightRenderedAtStringify ==
  (last.op = "stringify" /\ last.err = NoError)
  => LET i == last.inst
         pairs == OfKind("combine", calls[i])
     IN /\ Len(heap[i].combined) = Len(pairs)
        /\ \A k \in 1..Len(pairs) :
             LET now == Rendering(pairs[k].other, Len(heap))
             IN /\ heap[i].combined[k][2] = pairs[k].other
                /\ Slice(last.out, RightStart(i, k) + 1,
                         RightStart(i, k) + Len(now)) = now

\* stringify() of the left selector has returned a text that holds a fragment
\* the right selector received after the two were combined
C14_Witness ==
  /\ last.op = "stringify" /\ last.err = NoError /\ last.inst = 1
  /\ calls[1][2] = Call("combine", <<"+">>, 2)
  /\ calls[2] = <<Call("element", <<"a">>, 0), Call("class", <<"b">>, 0)>>
  /\ Slice(last.out, Len(last.out) - 2, Len(last.out)) = <<"a", ".", "b">>

\* --------------------------------------------------------------------- C15
\* C15: r.getArea() equals r.width * r.height in every state of a rectangle,
\* also after r.width or r.height was assigned.
C15_AreaIsWidthTimesHeight ==
  /\ rect.op # "none" => getArea(rect) = rect.width * rect.height
  /\ rect.op = "getArea" => rect.area = rect.width * rect.height

====
